---- MODULE Spec2Model ----
(***************************************************************************)
(* lzipper: the lzip member framing around a raw LZMA1 stream.             *)
(*                                                                         *)
(* Encoder::encode = write_header ; compress ; write_trailer               *)
(* Decoder::decode = read_header ; decompress ; read_trailer               *)
(* and the dictionary-size codec shared by both.                           *)
(*                                                                         *)
(* The LZMA engine (liblzma) and the CRC32 hasher (crc32fast) are external *)
(* crates.  They are replaced by small stand-ins with the same streaming   *)
(* contract: process(input, output, action) with total_in/total_out        *)
(* counters and a StreamEnd status, and update/finalize.                   *)
(***************************************************************************)
EXTENDS Integers, Sequences, FiniteSets, TLC

(* ------------------------------------------------------------------ *)
(* Bounds of the model                                                 *)
(* ------------------------------------------------------------------ *)

\* longest plain input handed to the encoder
MaxLen == 2

\* plain input bytes are drawn from 0..MaxData
MaxData == 1

\* size of output_buf in the model (4096 in the code)
OutCap == 1

\* capacity of the BufReader in the model (8 KiB in std)
BufCap == 2

\* a damaged trailer field is off by MaxDelta
MaxDelta == 1

\* longest byte string handed to the decompression loop as a payload
MaxBody == 4

\* dictionary sizes are sampled up to SampleSpread around each size that a
\* dictionary-size byte can express
SampleSpread == 1

(* ------------------------------------------------------------------ *)
(* Program constants (src/src/lib.rs)                                  *)
(* ------------------------------------------------------------------ *)

MIN_DICT_SIZE == 4096

MAX_DICT_SIZE == 536870912

LZIP_MAGIC == <<76, 90, 73, 80>>

LZIP_VERSION == 1

HEADER_LEN == 6

TRAILER_LEN == 20

(* ------------------------------------------------------------------ *)
(* Sequences of bytes                                                  *)
(* ------------------------------------------------------------------ *)

Take(s, n) == SubSeq(s, 1, n)

Drop(s, n) == SubSeq(s, n + 1, Len(s))

Min(x, y) == IF x <= y THEN x ELSE y

RECURSIVE Pow2(_)
Pow2(e) == IF e = 0 THEN 1 ELSE 2 * Pow2(e - 1)

(* ------------------------------------------------------------------ *)
(* u32 values up to 1 << 31                                            *)
(*                                                                     *)
(* decode_dict_size computes 1u32 << 31 for the byte 0x1F.  A u32 is   *)
(* kept as two 16-bit limbs <<hi, lo>>, value hi * 65536 + lo, so that  *)
(* every u32 of the code has a value in the model.                     *)
(* ------------------------------------------------------------------ *)

LIMB == Pow2(16)

\* the u32 with value n, 0 <= n < 2^31
U32(n) == <<n \div LIMB, n % LIMB>>

\* 1u32 << e, for e in 0..31
U32Shl1(e) == IF e < 16 THEN <<0, Pow2(e)>> ELSE <<Pow2(e - 16), 0>>

\* a > b on u32
U32Gt(a, b) == a[1] > b[1] \/ (a[1] = b[1] /\ a[2] > b[2])

\* a < b on u32
U32Lt(a, b) == U32Gt(b, a)

\* a / 16 on u32
U32Div16(a) == <<a[1] \div 16, ((a[1] % 16) * LIMB + a[2]) \div 16>>

\* a * k on u32 for a small k (0..7); the products of the code do not wrap
U32MulSmall(a, k) ==
    LET lo == a[2] * k
    IN  <<(a[1] * k + (lo \div LIMB)) % LIMB, lo % LIMB>>

\* a - b on u32, for a >= b
U32Sub(a, b) ==
    IF a[2] >= b[2]
    THEN <<a[1] - b[1], a[2] - b[2]>>
    ELSE <<a[1] - b[1] - 1, a[2] + LIMB - b[2]>>

(* ------------------------------------------------------------------ *)
(* Dictionary-size codec                                               *)
(* ------------------------------------------------------------------ *)

\* u32::ilog2 for n >= 1: the position of the highest set bit
RECURSIVE ILog2(_)
ILog2(n) == IF n <= 1 THEN 0 ELSE 1 + ILog2(n \div 2)

\* the subtractor the loop `for i in (1..=7).rev()` breaks on, 0 when none
RECURSIVE FracSearch(_, _, _, _)
FracSearch(i, base, frac, dict_size) ==
    IF i = 0 THEN 0
    ELSE IF base - (i * frac) >= dict_size THEN i
    ELSE FracSearch(i - 1, base, frac, dict_size)

\* a variant that keeps the power of two and never packs a subtractor
EncodeDictSizeNoFrac(dict_size) == ILog2(dict_size - 1) + 1

\* a variant whose search tries the subtractor 1 only
EncodeDictSizeOneStep(dict_size) ==
    LET ds == ILog2(dict_size - 1) + 1
    IN  IF dict_size > MIN_DICT_SIZE
        THEN LET base == Pow2(ds)
                 frac == base \div 16
             IN  ds + 32 * (IF base - frac >= dict_size THEN 1 ELSE 0)
        ELSE ds

\* Encoder::encode_dict_size(dict_size: u32) -> u8, for 2 <= dict_size <= 2^29
encode_dict_size(dict_size) ==
    LET ds == ILog2(dict_size - 1) + 1
    IN  IF dict_size > MIN_DICT_SIZE
        THEN LET base == Pow2(ds)
                 frac == base \div 16
             IN  ds + 32 * FracSearch(7, base, frac, dict_size)
        ELSE ds

\* a variant that subtracts the fraction for every exponent
DecodeDictSizeAlwaysFrac(dict_size) ==
    LET ds == U32Shl1(dict_size % 32)
    IN  U32Sub(ds, U32MulSmall(U32Div16(ds), (dict_size \div 32) % 8))

\* Decoder::decode_dict_size(dict_size: u8) -> u32 (always Ok)
decode_dict_size(dict_size) ==
    LET ds == U32Shl1(dict_size % 32)
    IN  IF U32Gt(ds, U32(MIN_DICT_SIZE))
        THEN U32Sub(ds, U32MulSmall(U32Div16(ds), (dict_size \div 32) % 8))
        ELSE ds

\* a range test that forgets the upper limit
DictSizeInRangeNoMax(ds) == ~ U32Lt(ds, U32(MIN_DICT_SIZE))

\* the range test of read_header on the decoded size
DictSizeInRange(ds) ==
    ~ (U32Lt(ds, U32(MIN_DICT_SIZE)) \/ U32Gt(ds, U32(MAX_DICT_SIZE)))

(* ------------------------------------------------------------------ *)
(* Little-endian integers of the trailer                               *)
(* ------------------------------------------------------------------ *)

\* n.to_le_bytes() on k bytes
RECURSIVE to_le_bytes(_, _)
to_le_bytes(n, k) ==
    IF k = 0 THEN <<>> ELSE <<n % 256>> \o to_le_bytes(n \div 256, k - 1)

\* uN::from_le_bytes(bytes); the trailers of the model hold values below 2^24
RECURSIVE from_le_bytes(_)
from_le_bytes(bytes) ==
    IF bytes = <<>> THEN 0 ELSE bytes[1] + 256 * from_le_bytes(Tail(bytes))

(* ------------------------------------------------------------------ *)
(* CRC32 stand-in: a streaming hash, crc32fast::Hasher                 *)
(* ------------------------------------------------------------------ *)

CRC_MOD == Pow2(16)

\* Hasher::new()
HasherNew == 0

\* Hasher::update(bytes): folds the bytes in order into the state
RECURSIVE HasherUpdate(_, _)
HasherUpdate(h, bytes) ==
    IF bytes = <<>> THEN h
    ELSE HasherUpdate((h * 31 + bytes[1] + 1) % CRC_MOD, Tail(bytes))

\* Hasher::finalize()
HasherFinalize(h) == h

(* ------------------------------------------------------------------ *)
(* LZMA1 stand-in: run-length coding with an end marker                *)
(*                                                                     *)
(* The compressed stream of s is one pair <<count, byte>> per run of s, *)
(* then the end marker 0.  The raw encoder may hold back its last run   *)
(* until it is told to finish; the raw decoder reports StreamEnd when   *)
(* it has consumed the end marker.                                     *)
(* ------------------------------------------------------------------ *)

\* a count byte the decoder rejects (LZMA_DATA_ERROR)
BAD_COUNT == 255

\* length of the first run of a non-empty s
RECURSIVE RunLen(_)
RunLen(s) ==
    IF Len(s) >= 2 /\ s[2] = s[1] THEN 1 + RunLen(Tail(s)) ELSE 1

\* the pairs of all runs of s
RECURSIVE Lz(_)
Lz(s) ==
    IF s = <<>> THEN <<>>
    ELSE LET n == RunLen(s) IN <<n, s[1]>> \o Lz(Drop(s, n))

\* what the encoder can have emitted after consuming s and before Finish
LzSafe(s) == IF s = <<>> THEN <<>> ELSE Take(Lz(s), Len(Lz(s)) - 2)

\* the whole compressed stream of s
LzFinal(s) == Lz(s) \o <<0>>

\* state of a new raw encoder: the input consumed and the bytes emitted
EncStreamNew == [cons |-> <<>>, nout |-> 0]

\* the bytes the encoder has ready in a call, after consuming c more bytes
EncAvail(st, input, c, finish) ==
    LET cons == st.cons \o Take(input, c)
        all  == IF finish THEN LzFinal(cons) ELSE LzSafe(cons)
    IN  Len(all) - st.nout

\* the (consumed, produced) pairs a call of the raw encoder may return:
\* Run makes progress on a non-empty input; Finish makes progress until
\* the whole stream is out, and then returns (0, 0)
EncChoices(st, input, cap, finish) ==
    { cp \in (0 .. Len(input)) \X (0 .. cap) :
        /\ cp[2] <= EncAvail(st, input, cp[1], finish)
        /\ (finish /\ EncAvail(st, input, 0, TRUE) = 0) \/ cp[1] + cp[2] >= 1 }

\* stream.process(input, output_buf, action) of the raw encoder, for one
\* pair of EncChoices: the new state and the bytes put into output_buf
EncProcess(st, input, cp, finish) ==
    LET cons == st.cons \o Take(input, cp[1])
        all  == IF finish THEN LzFinal(cons) ELSE LzSafe(cons)
    IN  [st  |-> [cons |-> cons, nout |-> st.nout + cp[2]],
         out |-> SubSeq(all, st.nout + 1, st.nout + cp[2])]

\* Stream::total_in / Stream::total_out of the raw encoder
EncTotalIn(st) == Len(st.cons)

EncTotalOut(st) == st.nout

\* state of a new raw decoder
\*   phase: "count" (a count byte or the end marker is next), "value"
\*          (the byte of the run is next), "end", "error"
\*   cnt: the count read in phase "value"; n, v: n copies of v still to emit
DecStreamNew ==
    [phase |-> "count", cnt |-> 0, n |-> 0, v |-> 0, tin |-> 0, tout |-> 0]

\* whether the raw decoder can do anything with this input and output space
DecCanStep(st, input, cap) ==
    /\ st.phase \notin {"end", "error"}
    /\ IF st.n > 0 THEN cap > 0 ELSE input # <<>>

\* one step of the raw decoder: emit a pending byte, else consume one byte
DecMicro(r) ==
    LET st == r.st IN
    IF st.n > 0
    THEN [r EXCEPT !.st  = [st EXCEPT !.n = st.n - 1, !.tout = st.tout + 1],
                   !.out = r.out \o <<st.v>>,
                   !.cap = r.cap - 1]
    ELSE LET x  == r.inp[1]
             s1 == [st EXCEPT !.tin = st.tin + 1]
         IN  [r EXCEPT !.inp = Tail(r.inp),
                       !.st  = IF st.phase = "value"
                               THEN [s1 EXCEPT !.phase = "count", !.n = st.cnt, !.v = x]
                               ELSE IF x = 0
                               THEN [s1 EXCEPT !.phase = "end"]
                               ELSE IF x = BAD_COUNT
                               THEN [s1 EXCEPT !.phase = "error"]
                               ELSE [s1 EXCEPT !.phase = "value", !.cnt = x]]

\* at most `steps` steps of the raw decoder
RECURSIVE DecRun(_, _)
DecRun(r, steps) ==
    IF steps = 0 \/ ~ DecCanStep(r.st, r.inp, r.cap) THEN r
    ELSE DecRun(DecMicro(r), steps - 1)

\* stream.process(input, output_buf, action) of the raw decoder: the new
\* state and the bytes put into output_buf.  The decoder works the same
\* under Run and Finish; it stops after `steps` steps, or earlier when the
\* input is used up, output_buf is full or the stream has ended.
DecProcess(st, input, cap, steps) ==
    LET r == DecRun([st |-> st, inp |-> input, out |-> <<>>, cap |-> cap], steps)
    IN  [st |-> r.st, out |-> r.out]

\* the most steps one call can take
DecMaxSteps == BufCap + OutCap

(* ------------------------------------------------------------------ *)
(* BufReader over the input                                            *)
(* ------------------------------------------------------------------ *)

\* the sizes the inner reader may return when the buffer is refilled
FillSizes(buf, rest) ==
    IF buf # <<>> \/ rest = <<>> THEN {0} ELSE 1 .. Min(BufCap, Len(rest))

\* BufReader::fill_buf: refills an empty buffer with k bytes of the inner
\* reader; an empty result is end of input
fill_buf(buf, rest, k) ==
    IF buf # <<>> THEN [buf |-> buf, rest |-> rest]
    ELSE LET m == Min(k, Len(rest))
         IN  [buf |-> Take(rest, m), rest |-> Drop(rest, m)]

\* BufReader::read_exact of `need` bytes, refilling k bytes at a time;
\* ok = FALSE is io::ErrorKind::UnexpectedEof
RECURSIVE read_exact(_, _, _, _, _)
read_exact(buf, rest, need, got, k) ==
    IF need = 0
    THEN [ok |-> TRUE, data |-> got, buf |-> buf, rest |-> rest]
    ELSE IF buf # <<>>
    THEN LET m == Min(need, Len(buf))
         IN  read_exact(Drop(buf, m), rest, need - m, got \o Take(buf, m), k)
    ELSE IF rest = <<>>
    THEN [ok |-> FALSE, data |-> got, buf |-> buf, rest |-> rest]
    ELSE LET m == Min(k, Len(rest))
         IN  read_exact(Take(rest, m), Drop(rest, m), need, got, k)

(* ------------------------------------------------------------------ *)
(* Encoder                                                             *)
(* ------------------------------------------------------------------ *)

Levels == {"Fastest", "Fast", "Default", "Maximum"}

\* a level table whose Default is 16 MiB
DictSizeDefault24(level) ==
    LET base == CASE level = "Fastest" -> 18
                  [] level = "Fast"    -> 22
                  [] level = "Default" -> 24
                  [] level = "Maximum" -> 26
    IN  Pow2(base)

\* Encoder::dict_size
dict_size(level) ==
    LET base == CASE level = "Fastest" -> 18
                  [] level = "Fast"    -> 22
                  [] level = "Default" -> 23
                  [] level = "Maximum" -> 26
    IN  Pow2(base)

\* Encoder::new_with_level(input, level); pc is the stage encode is at
EncoderNew(input, level) ==
    [pc     |-> "header",
     rest   |-> input,
     buf    |-> <<>>,
     compression_level |-> level,
     stream |-> EncStreamNew,
     hasher |-> HasherNew,
     crc32  |-> 0,
     uncompressed_size |-> 0,
     compressed_size   |-> 0,
     sink   |-> <<>>,
     res    |-> "none"]

\* a construction that checks the option against the maximum only
ConstructNoMin(m) ==
    IF m.dict_size > MAX_DICT_SIZE
    THEN [m EXCEPT !.pc = "made", !.res = "InvalidDictSize"]
    ELSE [m EXCEPT !.pc = "made", !.res = "Ok"]

\* construction of an encoder from the option dict_size, as the callers in
\* tests/roundtrip.rs and examples/lzipper-cli use it (a constructor that
\* returns a Result); src/encoder.rs has only the constructor from a level,
\* so this one follows the specification's Construct
Construct(m) ==
    IF m.dict_size < MIN_DICT_SIZE \/ m.dict_size > MAX_DICT_SIZE
    THEN [m EXCEPT !.pc = "made", !.res = "InvalidDictSize"]
    ELSE [m EXCEPT !.pc = "made", !.res = "Ok"]

\* Encoder::write_header
write_header(e) ==
    LET header == LZIP_MAGIC
                  \o <<LZIP_VERSION, encode_dict_size(dict_size(e.compression_level))>>
    IN  [e EXCEPT !.sink = e.sink \o header, !.pc = "compress"]

\* a loop that leaves at end of input after one call with Finish, whatever
\* that call wrote
CompressStepEofBreak(e, k, cp) ==
    LET f       == fill_buf(e.buf, e.rest, k)
        eof     == f.buf = <<>>
        r       == EncProcess(e.stream, f.buf, cp, eof)
        read    == EncTotalIn(r.st) - EncTotalIn(e.stream)
        written == EncTotalOut(r.st) - EncTotalOut(e.stream)
        e1      == [e EXCEPT !.rest   = f.rest,
                             !.buf    = Drop(f.buf, read),
                             !.stream = r.st,
                             !.hasher = HasherUpdate(e.hasher, Take(f.buf, read)),
                             !.sink   = e.sink \o Take(r.out, written)]
    IN  IF eof
        THEN [e1 EXCEPT !.crc32 = HasherFinalize(e1.hasher),
                        !.uncompressed_size = EncTotalIn(r.st),
                        !.compressed_size   = EncTotalOut(r.st),
                        !.pc = "trailer"]
        ELSE e1

\* a loop that hashes the whole buffer it offered to the compressor
CompressStepHashOffered(e, k, cp) ==
    LET f       == fill_buf(e.buf, e.rest, k)
        eof     == f.buf = <<>>
        r       == EncProcess(e.stream, f.buf, cp, eof)
        read    == EncTotalIn(r.st) - EncTotalIn(e.stream)
        written == EncTotalOut(r.st) - EncTotalOut(e.stream)
        e1      == [e EXCEPT !.rest   = f.rest,
                             !.buf    = Drop(f.buf, read),
                             !.stream = r.st,
                             !.hasher = HasherUpdate(e.hasher, f.buf),
                             !.sink   = e.sink \o Take(r.out, written)]
    IN  IF eof /\ written = 0
        THEN [e1 EXCEPT !.crc32 = HasherFinalize(e1.hasher),
                        !.uncompressed_size = EncTotalIn(r.st),
                        !.compressed_size   = EncTotalOut(r.st),
                        !.pc = "trailer"]
        ELSE e1

\* one iteration of the loop of Encoder::compress
compress_step(e, k, cp) ==
    LET f       == fill_buf(e.buf, e.rest, k)
        eof     == f.buf = <<>>
        r       == EncProcess(e.stream, f.buf, cp, eof)
        read    == EncTotalIn(r.st) - EncTotalIn(e.stream)
        written == EncTotalOut(r.st) - EncTotalOut(e.stream)
        e1      == [e EXCEPT !.rest   = f.rest,
                             !.buf    = Drop(f.buf, read),
                             !.stream = r.st,
                             !.hasher = HasherUpdate(e.hasher, Take(f.buf, read)),
                             !.sink   = e.sink \o Take(r.out, written)]
    IN  IF eof /\ written = 0
        THEN [e1 EXCEPT !.crc32 = HasherFinalize(e1.hasher),
                        !.uncompressed_size = EncTotalIn(r.st),
                        !.compressed_size   = EncTotalOut(r.st),
                        !.pc = "trailer"]
        ELSE e1

\* an encode that notes the error of a step and goes on with the next step
EncReturnGoOn(e, res) ==
    [e EXCEPT !.res = res,
              !.pc  = CASE e.pc = "header"   -> "compress"
                        [] e.pc = "compress" -> "trailer"
                        [] OTHER             -> "done"]

\* the `?` of encode and of its steps: encode returns the error res
EncReturn(e, res) == [e EXCEPT !.pc = "done", !.res = res]

\* the prefixes of `bytes` a failing write_all can have written: none of
\* it, or half of it
WritePrefixes(bytes) == {0, Len(bytes) \div 2}

\* Encoder::write_header when write_all fails after n bytes
write_header_fail(e, n) ==
    EncReturn([e EXCEPT !.sink = Take(write_header(e).sink, Len(e.sink) + n)],
              "IoError")

\* an iteration of the loop of Encoder::compress in which a call fails:
\*   "new"     new_preset or new_raw_encoder, before the first iteration
\*   "fill"    fill_buf
\*   "process" stream.process, after the buffer was refilled
\*   "write"   write_all, after n of the written bytes
compress_fail(e, k, cp, at, n) ==
    LET f    == fill_buf(e.buf, e.rest, k)
        eof  == f.buf = <<>>
        r    == EncProcess(e.stream, f.buf, cp, eof)
        read == EncTotalIn(r.st) - EncTotalIn(e.stream)
        e0   == [e EXCEPT !.rest = f.rest, !.buf = f.buf]
        e1   == [e EXCEPT !.rest   = f.rest,
                          !.buf    = Drop(f.buf, read),
                          !.stream = r.st,
                          !.hasher = HasherUpdate(e.hasher, Take(f.buf, read)),
                          !.sink   = e.sink \o Take(r.out, n)]
    IN  CASE at = "new"     -> EncReturn(e, "StreamError")
          [] at = "fill"    -> EncReturn(e, "IoError")
          [] at = "process" -> EncReturn(e0, "StreamError")
          [] at = "write"   -> EncReturn(e1, "IoError")

\* a trailer whose member_size leaves out the header
WriteTrailerNoHeader(e) ==
    LET member_size == e.compressed_size + TRAILER_LEN
        trailer == to_le_bytes(e.crc32, 4)
                   \o to_le_bytes(e.uncompressed_size, 8)
                   \o to_le_bytes(member_size, 8)
    IN  [e EXCEPT !.sink = e.sink \o trailer, !.pc = "done", !.res = "Ok"]

\* Encoder::write_trailer, and the Ok(()) of encode
write_trailer(e) ==
    LET member_size == HEADER_LEN + e.compressed_size + TRAILER_LEN
        trailer == to_le_bytes(e.crc32, 4)
                   \o to_le_bytes(e.uncompressed_size, 8)
                   \o to_le_bytes(member_size, 8)
    IN  [e EXCEPT !.sink = e.sink \o trailer, !.pc = "done", !.res = "Ok"]

\* Encoder::write_trailer when write_all fails after n bytes
write_trailer_fail(e, n) ==
    EncReturn([e EXCEPT !.sink = Take(write_trailer(e).sink, Len(e.sink) + n)],
              "IoError")

(* ------------------------------------------------------------------ *)
(* Decoder                                                             *)
(* ------------------------------------------------------------------ *)

\* Decoder::new(input); pc is the stage decode is at
DecoderNew(input) ==
    [pc     |-> "header",
     rest   |-> input,
     buf    |-> <<>>,
     dict_size |-> U32(0),
     stream |-> DecStreamNew,
     hasher |-> HasherNew,
     crc32  |-> 0,
     uncompressed_size |-> 0,
     compressed_size   |-> 0,
     sink   |-> <<>>,
     res    |-> "none"]

\* a decoder on which decode has not been called: no input yet
DecoderIdle == [DecoderNew(<<>>) EXCEPT !.pc = "idle"]

\* decode returns res: "Ok" or the name of the error
Return(d, res) == [d EXCEPT !.pc = "done", !.res = res]

\* header checks that look at the version before the magic
HeaderCheckVersionFirst(header) ==
    IF header[5] # LZIP_VERSION THEN "UnsupportedVersion"
    ELSE IF SubSeq(header, 1, 4) # LZIP_MAGIC THEN "InvalidMagic"
    ELSE IF ~ DictSizeInRange(decode_dict_size(header[6])) THEN "InvalidDictSize"
    ELSE "Ok"

\* header checks that look at the dictionary size before the version
HeaderCheckDictFirst(header) ==
    IF SubSeq(header, 1, 4) # LZIP_MAGIC THEN "InvalidMagic"
    ELSE IF ~ DictSizeInRange(decode_dict_size(header[6])) THEN "InvalidDictSize"
    ELSE IF header[5] # LZIP_VERSION THEN "UnsupportedVersion"
    ELSE "Ok"

\* the checks of Decoder::read_header on the 6 header bytes
header_check(header) ==
    IF SubSeq(header, 1, 4) # LZIP_MAGIC THEN "InvalidMagic"
    ELSE IF header[5] # LZIP_VERSION THEN "UnsupportedVersion"
    ELSE IF ~ DictSizeInRange(decode_dict_size(header[6])) THEN "InvalidDictSize"
    ELSE "Ok"

\* a read_header that notes a dictionary size out of range without
\* returning, so that decode goes on to the payload
ReadHeaderNoDictReturn(d, k) ==
    LET r  == read_exact(d.buf, d.rest, HEADER_LEN, <<>>, k)
        d1 == [d EXCEPT !.buf = r.buf, !.rest = r.rest]
    IN  IF ~ r.ok THEN Return(d1, "IoError")
        ELSE LET chk == header_check(r.data)
                 d2  == IF chk \in {"InvalidDictSize", "Ok"}
                        THEN [d1 EXCEPT !.dict_size = decode_dict_size(r.data[6])]
                        ELSE d1
             IN  IF chk \notin {"Ok", "InvalidDictSize"} THEN Return(d2, chk)
                 ELSE [d2 EXCEPT !.pc = "decompress"]

\* Decoder::read_header
read_header(d, k) ==
    LET r  == read_exact(d.buf, d.rest, HEADER_LEN, <<>>, k)
        d1 == [d EXCEPT !.buf = r.buf, !.rest = r.rest]
    IN  IF ~ r.ok THEN Return(d1, "IoError")
        ELSE LET chk == header_check(r.data)
                 d2  == IF chk \in {"InvalidDictSize", "Ok"}
                        THEN [d1 EXCEPT !.dict_size = decode_dict_size(r.data[6])]
                        ELSE d1
             IN  IF chk # "Ok" THEN Return(d2, chk)
                 ELSE [d2 EXCEPT !.pc = "decompress"]

\* a loop that tests for StreamEnd before it writes the bytes of the call
DecompressStepBreakFirst(d, k, steps) ==
    LET f       == fill_buf(d.buf, d.rest, k)
        eof     == f.buf = <<>>
        r       == DecProcess(d.stream, f.buf, OutCap, steps)
        read    == r.st.tin - d.stream.tin
        written == r.st.tout - d.stream.tout
        d0      == [d EXCEPT !.rest = f.rest, !.buf = f.buf]
        d1      == [d0 EXCEPT !.buf = Drop(f.buf, read), !.stream = r.st]
        d2      == [d1 EXCEPT !.sink   = d.sink \o Take(r.out, written),
                              !.hasher = HasherUpdate(d.hasher, Take(r.out, written))]
    IN  IF r.st.phase = "error" THEN Return(d0, "StreamError")
        ELSE IF r.st.phase = "end"
        THEN [d1 EXCEPT !.crc32 = HasherFinalize(d1.hasher),
                        !.uncompressed_size = r.st.tout,
                        !.compressed_size   = r.st.tin,
                        !.pc = "trailer"]
        ELSE IF eof /\ written = 0 THEN Return(d2, "UnexpectedEndOfStream")
        ELSE d2

\* a loop that, like the encoder's, leaves at end of input with nothing
\* written and goes on to the trailer
DecompressStepEofBreak(d, k, steps) ==
    LET f       == fill_buf(d.buf, d.rest, k)
        eof     == f.buf = <<>>
        r       == DecProcess(d.stream, f.buf, OutCap, steps)
        read    == r.st.tin - d.stream.tin
        written == r.st.tout - d.stream.tout
        d0      == [d EXCEPT !.rest = f.rest, !.buf = f.buf]
        d1      == [d0 EXCEPT !.buf    = Drop(f.buf, read),
                              !.stream = r.st,
                              !.sink   = d.sink \o Take(r.out, written),
                              !.hasher = HasherUpdate(d.hasher, Take(r.out, written))]
    IN  IF r.st.phase = "error" THEN Return(d0, "StreamError")
        ELSE IF r.st.phase = "end" \/ (eof /\ written = 0)
        THEN [d1 EXCEPT !.crc32 = HasherFinalize(d1.hasher),
                        !.uncompressed_size = r.st.tout,
                        !.compressed_size   = r.st.tin,
                        !.pc = "trailer"]
        ELSE d1

\* a loop that counts in compressed_size every byte it fetched, consumed
\* by the decompressor or not
DecompressStepCountFetched(d, k, steps) ==
    LET f       == fill_buf(d.buf, d.rest, k)
        eof     == f.buf = <<>>
        r       == DecProcess(d.stream, f.buf, OutCap, steps)
        read    == r.st.tin - d.stream.tin
        written == r.st.tout - d.stream.tout
        d0      == [d EXCEPT !.rest = f.rest, !.buf = f.buf]
        d1      == [d0 EXCEPT !.buf    = Drop(f.buf, read),
                              !.stream = r.st,
                              !.sink   = d.sink \o Take(r.out, written),
                              !.hasher = HasherUpdate(d.hasher, Take(r.out, written))]
    IN  IF r.st.phase = "error" THEN Return(d0, "StreamError")
        ELSE IF r.st.phase = "end"
        THEN [d1 EXCEPT !.crc32 = HasherFinalize(d1.hasher),
                        !.uncompressed_size = r.st.tout,
                        !.compressed_size   = r.st.tin + Len(d1.buf),
                        !.pc = "trailer"]
        ELSE IF eof /\ written = 0 THEN Return(d1, "UnexpectedEndOfStream")
        ELSE d1

\* a loop without the test for end of input with nothing written
DecompressStepNoEofCheck(d, k, steps) ==
    LET f       == fill_buf(d.buf, d.rest, k)
        eof     == f.buf = <<>>
        r       == DecProcess(d.stream, f.buf, OutCap, steps)
        read    == r.st.tin - d.stream.tin
        written == r.st.tout - d.stream.tout
        d0      == [d EXCEPT !.rest = f.rest, !.buf = f.buf]
        d1      == [d0 EXCEPT !.buf    = Drop(f.buf, read),
                              !.stream = r.st,
                              !.sink   = d.sink \o Take(r.out, written),
                              !.hasher = HasherUpdate(d.hasher, Take(r.out, written))]
    IN  IF r.st.phase = "error" THEN Return(d0, "StreamError")
        ELSE IF r.st.phase = "end"
        THEN [d1 EXCEPT !.crc32 = HasherFinalize(d1.hasher),
                        !.uncompressed_size = r.st.tout,
                        !.compressed_size   = r.st.tin,
                        !.pc = "trailer"]
        ELSE d1

\* one iteration of the loop of Decoder::decompress
decompress_step(d, k, steps) ==
    LET f       == fill_buf(d.buf, d.rest, k)
        eof     == f.buf = <<>>
        r       == DecProcess(d.stream, f.buf, OutCap, steps)
        read    == r.st.tin - d.stream.tin
        written == r.st.tout - d.stream.tout
        d0      == [d EXCEPT !.rest = f.rest, !.buf = f.buf]
        d1      == [d0 EXCEPT !.buf    = Drop(f.buf, read),
                              !.stream = r.st,
                              !.sink   = d.sink \o Take(r.out, written),
                              !.hasher = HasherUpdate(d.hasher, Take(r.out, written))]
    IN  IF r.st.phase = "error" THEN Return(d0, "StreamError")
        ELSE IF r.st.phase = "end"
        THEN [d1 EXCEPT !.crc32 = HasherFinalize(d1.hasher),
                        !.uncompressed_size = r.st.tout,
                        !.compressed_size   = r.st.tin,
                        !.pc = "trailer"]
        ELSE IF eof /\ written = 0 THEN Return(d1, "UnexpectedEndOfStream")
        ELSE d1

\* trailer checks without the CRC comparison
TrailerCheckNoCrc(trailer, crc32, uncompressed_size, compressed_size) ==
    IF from_le_bytes(SubSeq(trailer, 5, 12)) # uncompressed_size
    THEN "InvalidDataSize"
    ELSE IF from_le_bytes(SubSeq(trailer, 13, 20))
            # HEADER_LEN + compressed_size + TRAILER_LEN
    THEN "InvalidMemberSize"
    ELSE "Ok"

\* trailer checks that only reject an uncompressed_size that is too large
TrailerCheckDataSizeMax(trailer, crc32, uncompressed_size, compressed_size) ==
    IF from_le_bytes(SubSeq(trailer, 1, 4)) # crc32 THEN "InvalidCrc"
    ELSE IF from_le_bytes(SubSeq(trailer, 5, 12)) > uncompressed_size
    THEN "InvalidDataSize"
    ELSE IF from_le_bytes(SubSeq(trailer, 13, 20))
            # HEADER_LEN + compressed_size + TRAILER_LEN
    THEN "InvalidMemberSize"
    ELSE "Ok"

\* trailer checks that only reject a member_size that is too small
TrailerCheckMemberSizeMin(trailer, crc32, uncompressed_size, compressed_size) ==
    IF from_le_bytes(SubSeq(trailer, 1, 4)) # crc32 THEN "InvalidCrc"
    ELSE IF from_le_bytes(SubSeq(trailer, 5, 12)) # uncompressed_size
    THEN "InvalidDataSize"
    ELSE IF from_le_bytes(SubSeq(trailer, 13, 20))
            < HEADER_LEN + compressed_size + TRAILER_LEN
    THEN "InvalidMemberSize"
    ELSE "Ok"

\* trailer checks in the order member_size, uncompressed_size, crc32
TrailerCheckSizesFirst(trailer, crc32, uncompressed_size, compressed_size) ==
    IF from_le_bytes(SubSeq(trailer, 13, 20))
       # HEADER_LEN + compressed_size + TRAILER_LEN
    THEN "InvalidMemberSize"
    ELSE IF from_le_bytes(SubSeq(trailer, 5, 12)) # uncompressed_size
    THEN "InvalidDataSize"
    ELSE IF from_le_bytes(SubSeq(trailer, 1, 4)) # crc32 THEN "InvalidCrc"
    ELSE "Ok"

\* the checks of Decoder::read_trailer on the 20 trailer bytes
trailer_check(trailer, crc32, uncompressed_size, compressed_size) ==
    IF from_le_bytes(SubSeq(trailer, 1, 4)) # crc32 THEN "InvalidCrc"
    ELSE IF from_le_bytes(SubSeq(trailer, 5, 12)) # uncompressed_size
    THEN "InvalidDataSize"
    ELSE IF from_le_bytes(SubSeq(trailer, 13, 20))
            # HEADER_LEN + compressed_size + TRAILER_LEN
    THEN "InvalidMemberSize"
    ELSE "Ok"

\* a read_trailer that empties the sink when a check fails
ReadTrailerRollback(d, k) ==
    LET r  == read_exact(d.buf, d.rest, TRAILER_LEN, <<>>, k)
        d1 == [d EXCEPT !.buf = r.buf, !.rest = r.rest]
        chk == trailer_check(r.data, d.crc32, d.uncompressed_size, d.compressed_size)
    IN  IF ~ r.ok THEN Return(d1, "IoError")
        ELSE IF chk # "Ok" THEN Return([d1 EXCEPT !.sink = <<>>], chk)
        ELSE Return(d1, chk)

\* a read_trailer that, after the checks, requires the input to be at its
\* end
ReadTrailerRejectExtra(d, k) ==
    LET r  == read_exact(d.buf, d.rest, TRAILER_LEN, <<>>, k)
        d1 == [d EXCEPT !.buf = r.buf, !.rest = r.rest]
        chk == trailer_check(r.data, d.crc32, d.uncompressed_size, d.compressed_size)
    IN  IF ~ r.ok THEN Return(d1, "IoError")
        ELSE IF chk = "Ok" /\ r.buf \o r.rest # <<>>
        THEN Return(d1, "InvalidMemberSize")
        ELSE Return(d1, chk)

\* Decoder::read_trailer, and the Ok(()) of decode
read_trailer(d, k) ==
    LET r  == read_exact(d.buf, d.rest, TRAILER_LEN, <<>>, k)
        d1 == [d EXCEPT !.buf = r.buf, !.rest = r.rest]
    IN  IF ~ r.ok THEN Return(d1, "IoError")
        ELSE Return(d1, trailer_check(r.data, d.crc32, d.uncompressed_size,
                                    d.compressed_size))

\* Decoder::read_header when the inner reader fails at a refill, after the
\* buffer and c refills of k bytes were taken
read_header_fail(d, k, c) ==
    Return([d EXCEPT !.buf = <<>>, !.rest = Drop(d.rest, c * k)], "IoError")

\* an iteration of the loop of Decoder::decompress in which a call fails:
\*   "new"     new_preset or new_raw_decoder, before the first iteration
\*   "fill"    fill_buf
\*   "process" stream.process, after the buffer was refilled
\*   "write"   write_all, after n of the written bytes
decompress_fail(d, k, steps, at, n) ==
    LET f    == fill_buf(d.buf, d.rest, k)
        r    == DecProcess(d.stream, f.buf, OutCap, steps)
        read == r.st.tin - d.stream.tin
        d0   == [d EXCEPT !.rest = f.rest, !.buf = f.buf]
        d1   == [d0 EXCEPT !.buf    = Drop(f.buf, read),
                           !.stream = r.st,
                           !.sink   = d.sink \o Take(r.out, n)]
    IN  CASE at = "new"     -> Return(d, "StreamError")
          [] at = "fill"    -> Return(d, "IoError")
          [] at = "process" -> Return(d0, "StreamError")
          [] at = "write"   -> Return(d1, "IoError")

\* Decoder::read_trailer when the inner reader fails at a refill
read_trailer_fail(d, k, c) ==
    Return([d EXCEPT !.buf = <<>>, !.rest = Drop(d.rest, c * k)], "IoError")

(* ------------------------------------------------------------------ *)
(* Inputs of the decoder: the produced member, or a damaged copy       *)
(* ------------------------------------------------------------------ *)

\* plain inputs of the encoder
Inputs == UNION { [1 .. n -> 0 .. MaxData] : n \in 0 .. MaxLen }

\* s with its i-th byte set to x
SetByte(s, i, x) == [s EXCEPT ![i] = x]

\* stored trailer fields are moved modulo this value
TAMPER_MOD == Pow2(24)

\* 6-byte headers tried in place of the member's header: a wrong magic, a
\* wrong version, a dictionary size out of range, two sizes in range
Headers ==
    { SetByte(LZIP_MAGIC, 1, 0) \o <<1, 12>>,
      LZIP_MAGIC \o <<0, 12>>,
      LZIP_MAGIC \o <<1, 0>>,
      LZIP_MAGIC \o <<1, 12>>,
      LZIP_MAGIC \o <<1, 29>> }

\* a stored field is left alone or moved down or up by MaxDelta
Deltas == {-MaxDelta, 0, MaxDelta}

\* one stored field changed in its third byte only
HighDeltas ==
    { <<65536 * MaxDelta, 0, 0>>, <<0, 65536 * MaxDelta, 0>>, <<0, 0, 65536 * MaxDelta>> }

Extras == { <<0>>, <<76, 90>> }

NoTamper ==
    [kind |-> "none", hdr |-> <<>>, n |-> 0, deltas |-> <<0, 0, 0>>, extra |-> <<>>]

\* the ways a member m is damaged before it is decoded
Tampers(m) ==
    {NoTamper}
    \cup { [NoTamper EXCEPT !.kind = "cut", !.n = n] : n \in 0 .. (Len(m) - 1) }
    \cup { [NoTamper EXCEPT !.kind = "header", !.hdr = h] : h \in Headers \ {Take(m, 6)} }
    \cup { [NoTamper EXCEPT !.kind = "trailer", !.deltas = ds] :
             ds \in ((Deltas \X Deltas \X Deltas) \ {<<0, 0, 0>>}) \cup HighDeltas }
    \cup { [NoTamper EXCEPT !.kind = "extra", !.extra = x] : x \in Extras \cup {m} }
    \cup { [NoTamper EXCEPT !.kind = "payload", !.n = n] :
             n \in (HEADER_LEN + 1) .. (Len(m) - TRAILER_LEN) }

\* a k-byte little-endian field moved by delta
MoveField(bytes, delta) ==
    to_le_bytes((from_le_bytes(bytes) + delta) % TAMPER_MOD, Len(bytes))

\* the input the decoder gets for member m under tamper t
Tampered(m, t) ==
    LET p == Len(m) - TRAILER_LEN IN
    CASE t.kind = "none"    -> m
      [] t.kind = "cut"     -> Take(m, t.n)
      [] t.kind = "header"  -> t.hdr \o Drop(m, HEADER_LEN)
      [] t.kind = "trailer" -> Take(m, p)
                               \o MoveField(SubSeq(m, p + 1, p + 4), t.deltas[1])
                               \o MoveField(SubSeq(m, p + 5, p + 12), t.deltas[2])
                               \o MoveField(SubSeq(m, p + 13, p + 20), t.deltas[3])
      [] t.kind = "extra"   -> m \o t.extra
      [] t.kind = "payload" -> SetByte(m, t.n, BAD_COUNT)

(* ------------------------------------------------------------------ *)
(* State                                                               *)
(* ------------------------------------------------------------------ *)

VARIABLES
    src,    \* the plain input and the compression level of the encoder
    enc,    \* the Encoder, its raw encoder, hasher and output sink
    feed,   \* how the produced member was handed to the decoder
    dec,    \* the Decoder, its raw decoder, hasher and output sink
    cod,    \* a run of the dictionary-size codec on one size
    mk      \* a construction of an encoder from a dictionary-size option

vars == <<src, enc, feed, dec, cod, mk>>

NotFed == [NoTamper EXCEPT !.kind = "idle"] @@ [input |-> <<>>]

CodecOff == [pc |-> "off", d |-> MIN_DICT_SIZE, byte |-> 0, out |-> U32(0)]

MkOff == [pc |-> "off", dict_size |-> MIN_DICT_SIZE, res |-> "none", sink |-> <<>>]

Init ==
    /\ src \in [b : Inputs, level : Levels]
    /\ enc = EncoderNew(src.b, src.level)
    /\ feed = NotFed
    /\ dec = DecoderIdle
    /\ cod = CodecOff
    /\ mk = MkOff

(* ----------------------------- encode ----------------------------- *)

EncWriteHeader ==
    /\ enc.pc = "header"
    /\ enc' = write_header(enc)
    /\ UNCHANGED <<src, feed, dec, cod, mk>>

EncCompress ==
    /\ enc.pc = "compress"
    /\ \E k \in FillSizes(enc.buf, enc.rest) :
         LET f == fill_buf(enc.buf, enc.rest, k) IN
         \E cp \in EncChoices(enc.stream, f.buf, OutCap, f.buf = <<>>) :
             enc' = compress_step(enc, k, cp)
    /\ UNCHANGED <<src, feed, dec, cod, mk>>

EncWriteTrailer ==
    /\ enc.pc = "trailer"
    /\ enc' = write_trailer(enc)
    /\ UNCHANGED <<src, feed, dec, cod, mk>>

(* ----------------------------- decode ----------------------------- *)

\* Decoder::new on the member the encoder produced, or on a damaged copy
Feed ==
    /\ enc.res = "Ok"
    /\ dec.pc = "idle"
    /\ \E t \in Tampers(enc.sink) :
         /\ feed' = t @@ [input |-> Tampered(enc.sink, t)]
         /\ dec' = DecoderNew(Tampered(enc.sink, t))
    /\ UNCHANGED <<src, enc, cod, mk>>

DecReadHeader ==
    /\ dec.pc = "header"
    /\ \E k \in 1 .. BufCap : dec' = read_header(dec, k)
    /\ UNCHANGED <<src, enc, feed, cod, mk>>

DecDecompress ==
    /\ dec.pc = "decompress"
    /\ \E k \in FillSizes(dec.buf, dec.rest), steps \in 1 .. DecMaxSteps :
         dec' = decompress_step(dec, k, steps)
    /\ UNCHANGED <<src, enc, feed, cod, mk>>

DecReadTrailer ==
    /\ dec.pc = "trailer"
    /\ \E k \in 1 .. BufCap : dec' = read_trailer(dec, k)
    /\ UNCHANGED <<src, enc, feed, cod, mk>>

Next ==
    \/ EncWriteHeader
    \/ EncCompress
    \/ EncWriteTrailer
    \/ Feed
    \/ DecReadHeader
    \/ DecDecompress
    \/ DecReadTrailer

Spec == Init /\ [][Next]_vars

(* ------------------------------------------------------------------ *)
(* The dictionary-size codec on its own                                *)
(* ------------------------------------------------------------------ *)

\* the sizes a dictionary-size byte can express with exponent e
Expressible(e) == { Pow2(e) - i * Pow2(e - 4) : i \in 0 .. 7 }

\* dictionary sizes in [4 KiB, 512 MiB]: every expressible size and its
\* neighbours
DictSizes ==
    { d \in UNION { { x + j : j \in (-SampleSpread) .. SampleSpread } :
                    x \in UNION { Expressible(e) : e \in 12 .. 29 } } :
        MIN_DICT_SIZE <= d /\ d <= MAX_DICT_SIZE }

CodecInit ==
    /\ src = [b |-> <<>>, level |-> "Default"]
    /\ enc = EncoderNew(src.b, src.level)
    /\ feed = NotFed
    /\ dec = DecoderIdle
    /\ cod \in { [CodecOff EXCEPT !.pc = "start", !.d = d] : d \in DictSizes }
    /\ mk = MkOff

CodecEncode ==
    /\ cod.pc = "start"
    /\ cod' = [cod EXCEPT !.pc = "encoded", !.byte = encode_dict_size(cod.d)]
    /\ UNCHANGED <<src, enc, feed, dec, mk>>

CodecDecode ==
    /\ cod.pc = "encoded"
    /\ cod' = [cod EXCEPT !.pc = "decoded", !.out = decode_dict_size(cod.byte)]
    /\ UNCHANGED <<src, enc, feed, dec, mk>>

CodecNext == CodecEncode \/ CodecDecode

SpecCodec == CodecInit /\ [][CodecNext]_vars

(* ------------------------------------------------------------------ *)
(* The dictionary-size codec from the byte side                        *)
(* ------------------------------------------------------------------ *)

\* the value of a u32 below 2^31 as a number
U32Val(a) == a[1] * LIMB + a[2]

\* every byte; out is its decoded size, back the byte that size encodes to
ByteInit ==
    /\ src = [b |-> <<>>, level |-> "Default"]
    /\ enc = EncoderNew(src.b, src.level)
    /\ feed = NotFed
    /\ dec = DecoderIdle
    /\ mk = MkOff
    /\ cod \in { [pc |-> "byte", byte |-> b, out |-> U32(0), back |-> 0] :
                   b \in 0 .. 255 }

ByteDecode ==
    /\ cod.pc = "byte"
    /\ cod' = [cod EXCEPT !.pc = "sized", !.out = decode_dict_size(cod.byte)]
    /\ UNCHANGED <<src, enc, feed, dec, mk>>

\* the sizes the range test of read_header accepts are encoded again
ByteEncode ==
    /\ cod.pc = "sized"
    /\ DictSizeInRange(cod.out)
    /\ cod' = [cod EXCEPT !.pc = "back",
                          !.back = encode_dict_size(U32Val(cod.out))]
    /\ UNCHANGED <<src, enc, feed, dec, mk>>

ByteNext == ByteDecode \/ ByteEncode

SpecByte == ByteInit /\ [][ByteNext]_vars

(* ------------------------------------------------------------------ *)
(* The decoder on arbitrary headers                                    *)
(* ------------------------------------------------------------------ *)

\* every version 0..2 with every dictionary-size byte under the right
\* magic, and headers with one magic byte wrong
AllHeaders ==
    { LZIP_MAGIC \o <<v, b>> : v \in 0 .. 2, b \in 0 .. 255 }
    \cup { SetByte(LZIP_MAGIC, i, x) \o <<v, b>> :
             i \in 1 .. 4, x \in {0, 255}, v \in 0 .. 1, b \in {0, 12, 255} }

\* what follows the header: nothing, an empty stream with its trailer, a
\* stream of one byte with a trailer of zeros, a stream that never ends
Bodies ==
    { <<>>,
      <<0>> \o to_le_bytes(0, 4) \o to_le_bytes(0, 8) \o to_le_bytes(27, 8),
      <<1, 1, 0>> \o to_le_bytes(0, 20),
      <<1, 1, 1>> }

\* the inputs: a header and a body, whole or cut after 4 or 5 bytes
HdrInit ==
    /\ src = [b |-> <<>>, level |-> "Default"]
    /\ enc = EncoderNew(src.b, src.level)
    /\ cod = CodecOff
    /\ mk = MkOff
    /\ \E h \in AllHeaders, body \in Bodies, n \in {4, 5, HEADER_LEN + TRAILER_LEN + 3} :
         /\ feed = [NoTamper EXCEPT !.kind = "direct", !.hdr = h, !.n = n]
                   @@ [input |-> Take(h \o body, Min(n, Len(h \o body)))]
         /\ dec = DecoderNew(feed.input)

HdrNext == DecReadHeader \/ DecDecompress \/ DecReadTrailer

SpecHdr == HdrInit /\ [][HdrNext]_vars

(* ------------------------------------------------------------------ *)
(* Construction of an encoder from a dictionary-size option            *)
(* ------------------------------------------------------------------ *)

\* the options: every size of DictSizes, and sizes on both sides outside
\* [4 KiB, 512 MiB]
OptionSizes ==
    DictSizes
    \cup { MIN_DICT_SIZE - 1 - j : j \in 0 .. SampleSpread }
    \cup { MAX_DICT_SIZE + 1 + j : j \in 0 .. SampleSpread }
    \cup { 0, Pow2(30) }

MkInit ==
    /\ src = [b |-> <<>>, level |-> "Default"]
    /\ enc = EncoderNew(src.b, src.level)
    /\ feed = NotFed
    /\ dec = DecoderIdle
    /\ cod = CodecOff
    /\ mk \in { [MkOff EXCEPT !.pc = "start", !.dict_size = d] : d \in OptionSizes }

MkConstruct ==
    /\ mk.pc = "start"
    /\ mk' = Construct(mk)
    /\ UNCHANGED <<src, enc, feed, dec, cod>>

MkNext == MkConstruct

SpecMk == MkInit /\ [][MkNext]_vars

(* ------------------------------------------------------------------ *)
(* The decompression loop on arbitrary payloads                        *)
(* ------------------------------------------------------------------ *)

\* payloads: every string up to MaxBody over an end marker, two counts, a
\* byte the raw decoder rejects
LoopBodies == UNION { [1 .. n -> {0, 1, 2, BAD_COUNT}] : n \in 0 .. MaxBody }

\* the inputs: the header of a Default member, then a payload, and nothing
\* or a few bytes where the trailer would be
LoopInit ==
    /\ src = [b |-> <<>>, level |-> "Default"]
    /\ enc = EncoderNew(src.b, src.level)
    /\ cod = CodecOff
    /\ mk = MkOff
    /\ \E body \in LoopBodies :
         /\ feed = [NoTamper EXCEPT !.kind = "direct",
                                    !.hdr = write_header(enc).sink,
                                    !.n = Len(body)]
                   @@ [input |-> write_header(enc).sink \o body]
         /\ dec = DecoderNew(feed.input)

\* decode is a blocking call: once the calling thread is in the loop of
\* decompress it runs the next iteration without waiting for anything but
\* its own reads and writes
SpecLoop == LoopInit /\ [][HdrNext]_vars /\ WF_vars(DecDecompress)

(* ------------------------------------------------------------------ *)
(* encode and decode with failing reads, writes and engine calls       *)
(* ------------------------------------------------------------------ *)

FaultInit == Init /\ src.level = "Default"

EncWriteHeaderFail ==
    /\ enc.pc = "header"
    /\ \E n \in WritePrefixes(LZIP_MAGIC \o <<LZIP_VERSION, 0>>) :
         enc' = write_header_fail(enc, n)
    /\ UNCHANGED <<src, feed, dec, cod, mk>>

EncCompressFail ==
    /\ enc.pc = "compress"
    /\ \E k \in FillSizes(enc.buf, enc.rest) :
         LET f == fill_buf(enc.buf, enc.rest, k) IN
         \E cp \in EncChoices(enc.stream, f.buf, OutCap, f.buf = <<>>),
            at \in {"new", "fill", "process", "write"}, n \in 0 .. OutCap :
             /\ at = "new" => enc.stream = EncStreamNew
             /\ at = "fill" => enc.buf = <<>>
             /\ at = "write" => n < cp[2]
             /\ at # "write" => n = 0
             /\ enc' = compress_fail(enc, k, cp, at, n)
    /\ UNCHANGED <<src, feed, dec, cod, mk>>

EncWriteTrailerFail ==
    /\ enc.pc = "trailer"
    /\ \E n \in WritePrefixes([i \in 1 .. TRAILER_LEN |-> 0]) :
         enc' = write_trailer_fail(enc, n)
    /\ UNCHANGED <<src, feed, dec, cod, mk>>

DecReadHeaderFail ==
    /\ dec.pc = "header"
    /\ \E k \in 1 .. BufCap, c \in 0 .. 1 :
         /\ Len(dec.buf) + c * k < HEADER_LEN
         /\ c * k <= Len(dec.rest)
         /\ dec' = read_header_fail(dec, k, c)
    /\ UNCHANGED <<src, enc, feed, cod, mk>>

DecDecompressFail ==
    /\ dec.pc = "decompress"
    /\ \E k \in FillSizes(dec.buf, dec.rest), steps \in 1 .. DecMaxSteps,
          at \in {"new", "fill", "process", "write"}, n \in 0 .. OutCap :
         LET d == decompress_step(dec, k, steps) IN
         /\ at = "new" => dec.stream = DecStreamNew
         /\ at = "fill" => dec.buf = <<>>
         /\ at = "write" => (d.stream.phase # "error"
                             /\ n < d.stream.tout - dec.stream.tout)
         /\ at # "write" => n = 0
         /\ dec' = decompress_fail(dec, k, steps, at, n)
    /\ UNCHANGED <<src, enc, feed, cod, mk>>

DecReadTrailerFail ==
    /\ dec.pc = "trailer"
    /\ \E k \in 1 .. BufCap, c \in 0 .. 1 :
         /\ Len(dec.buf) + c * k < TRAILER_LEN
         /\ c * k <= Len(dec.rest)
         /\ dec' = read_trailer_fail(dec, k, c)
    /\ UNCHANGED <<src, enc, feed, cod, mk>>

FaultNext ==
    \/ Next
    \/ EncWriteHeaderFail
    \/ EncCompressFail
    \/ EncWriteTrailerFail
    \/ DecReadHeaderFail
    \/ DecDecompressFail
    \/ DecReadTrailerFail

SpecFault == FaultInit /\ [][FaultNext]_vars

(* ------------------------------------------------------------------ *)
(* Properties                                                          *)
(* ------------------------------------------------------------------ *)

\* the trailer fields stored in a member m
StoredCrc(m) == from_le_bytes(SubSeq(m, Len(m) - 19, Len(m) - 16))

StoredDataSize(m) == from_le_bytes(SubSeq(m, Len(m) - 15, Len(m) - 8))

StoredMemberSize(m) == from_le_bytes(SubSeq(m, Len(m) - 7, Len(m)))

\* decode has returned
DecDone == dec.pc = "done"

\* C1: Round-trip.  When the member produced by encode, for any input and
\* any level, is decoded as it is, decode returns Ok and the decoder's
\* sink holds exactly the encoder's input.
C1_RoundTrip ==
    (feed.kind = "none" /\ DecDone) => (dec.res = "Ok" /\ dec.sink = src.b)

\* C1 witness: a two-run input went through encode and decode unchanged
C1_Witness ==
    /\ feed.kind = "none" /\ DecDone /\ dec.res = "Ok"
    /\ Len(src.b) = MaxLen /\ src.b[1] # src.b[2]
    /\ dec.sink = src.b
    /\ src.level = "Maximum"

\* C2 as claimed: an input whose first 4 bytes are not the magic fails with
\* InvalidMagic, also when fewer than 2 bytes follow them.
C2_AsClaimed ==
    (DecDone /\ Len(feed.input) >= 4 /\ Take(feed.input, 4) # LZIP_MAGIC)
        => dec.res = "InvalidMagic"

\* C2 amended: an input of at least 6 bytes whose first 4 bytes are not the
\* magic fails with InvalidMagic, whatever the bytes after them are.
C2_InvalidMagic ==
    (DecDone /\ Len(feed.input) >= HEADER_LEN /\ Take(feed.input, 4) # LZIP_MAGIC)
        => dec.res = "InvalidMagic"

\* C2 witness: wrong magic together with a wrong version and bytes after
\* the header
C2_Witness ==
    /\ DecDone /\ Len(feed.input) > HEADER_LEN
    /\ Take(feed.input, 4) # LZIP_MAGIC
    /\ feed.input[5] # LZIP_VERSION
    /\ dec.res = "InvalidMagic"

\* C3: an input of at least 6 bytes with the right magic and a version byte
\* other than 1 fails with UnsupportedVersion, whatever the dictionary-size
\* byte and the rest of the input are.
C3_UnsupportedVersion ==
    (/\ DecDone /\ Len(feed.input) >= HEADER_LEN
     /\ Take(feed.input, 4) = LZIP_MAGIC
     /\ feed.input[5] # LZIP_VERSION)
        => dec.res = "UnsupportedVersion"

\* C3 witness: a wrong version together with a dictionary size out of range
C3_Witness ==
    /\ DecDone /\ Len(feed.input) > HEADER_LEN
    /\ Take(feed.input, 4) = LZIP_MAGIC
    /\ feed.input[5] = 2
    /\ U32Gt(decode_dict_size(feed.input[6]), U32(MAX_DICT_SIZE))
    /\ dec.res = "UnsupportedVersion"

\* d is the size some dictionary-size byte decodes to
Decodable(d) == \E b \in 0 .. 255 : decode_dict_size(b) = U32(d)

\* C4 as claimed: decode_dict_size(encode_dict_size(d)) = d for every d in
\* [4 KiB, 512 MiB].
C4_AsClaimed ==
    cod.pc = "decoded" => cod.out = U32(cod.d)

\* C4 amended: decode_dict_size(encode_dict_size(d)) = d for every d in
\* [4 KiB, 512 MiB] that is the decoded size of some dictionary-size byte.
C4_DictSizeRoundTrip ==
    (cod.pc = "decoded" /\ Decodable(cod.d)) => cod.out = U32(cod.d)

\* C4 witness: a size with a fractional subtractor came back unchanged
C4_Witness ==
    /\ cod.pc = "decoded" /\ Decodable(cod.d)
    /\ cod.byte \div 32 = 5
    /\ cod.out = U32(cod.d)

\* C5: with the right magic and version 1, a dictionary-size byte that
\* decodes below 4 KiB or above 512 MiB makes decode fail with
\* InvalidDictSize.
C5_InvalidDictSize ==
    (/\ DecDone /\ Len(feed.input) >= HEADER_LEN
     /\ Take(feed.input, 4) = LZIP_MAGIC
     /\ feed.input[5] = LZIP_VERSION
     /\ \/ U32Lt(decode_dict_size(feed.input[6]), U32(MIN_DICT_SIZE))
        \/ U32Gt(decode_dict_size(feed.input[6]), U32(MAX_DICT_SIZE)))
        => dec.res = "InvalidDictSize"

\* C5 witness: the byte 0x1F, which decodes to 2 GiB, was rejected
C5_Witness ==
    /\ DecDone /\ Len(feed.input) > HEADER_LEN
    /\ Take(feed.input, 5) = LZIP_MAGIC \o <<LZIP_VERSION>>
    /\ feed.input[6] = 31
    /\ dec.res = "InvalidDictSize"

\* the member was cut inside its compressed bytes, after the whole header
\* and before the end marker was complete
CutInPayload ==
    /\ feed.kind = "cut"
    /\ HEADER_LEN <= feed.n
    /\ feed.n < Len(enc.sink) - TRAILER_LEN

\* C6: a valid header followed by compressed bytes that end before the
\* decompressor signals stream-end makes decode fail with
\* UnexpectedEndOfStream; it never gets to the trailer.
C6_Truncated ==
    CutInPayload =>
        /\ dec.pc # "trailer"
        /\ DecDone => dec.res = "UnexpectedEndOfStream"

\* C6 witness: a cut stream failed after part of the output was written
C6_Witness ==
    /\ CutInPayload /\ DecDone
    /\ dec.res = "UnexpectedEndOfStream"
    /\ dec.sink # <<>>

\* C7: a member that is valid but for its stored CRC32 fails with
\* InvalidCrc whenever the stored CRC32 differs from the CRC32 of the
\* decompressed output.
C7_InvalidCrc ==
    (/\ feed.kind = "trailer" /\ DecDone
     /\ feed.deltas[2] = 0 /\ feed.deltas[3] = 0
     /\ StoredCrc(feed.input) # HasherUpdate(HasherNew, src.b))
        => dec.res = "InvalidCrc"

\* C7 witness: a member of a non-empty input with a changed CRC32 was
\* rejected
C7_Witness ==
    /\ feed.kind = "trailer" /\ DecDone
    /\ feed.deltas = <<MaxDelta, 0, 0>>
    /\ src.b # <<>>
    /\ dec.res = "InvalidCrc"

\* C8: a member that is valid but for its stored uncompressed_size fails
\* with InvalidDataSize whenever the stored value differs from the number
\* of bytes the decompressor produced.
C8_InvalidDataSize ==
    (/\ feed.kind = "trailer" /\ DecDone
     /\ feed.deltas[1] = 0 /\ feed.deltas[3] = 0
     /\ StoredDataSize(feed.input) # Len(dec.sink))
        => dec.res = "InvalidDataSize"

\* C8 witness: a stored uncompressed_size one below the real one was
\* rejected
C8_Witness ==
    /\ feed.kind = "trailer" /\ DecDone
    /\ feed.deltas = <<0, -MaxDelta, 0>>
    /\ Len(src.b) = MaxLen
    /\ dec.res = "InvalidDataSize"

\* C9: a member that is valid but for its stored member_size fails with
\* InvalidMemberSize whenever the stored value differs from 6 + the
\* compressed bytes consumed + 20.
C9_InvalidMemberSize ==
    (/\ feed.kind = "trailer" /\ DecDone
     /\ feed.deltas[1] = 0 /\ feed.deltas[2] = 0
     /\ StoredMemberSize(feed.input) # HEADER_LEN + dec.stream.tin + TRAILER_LEN)
        => dec.res = "InvalidMemberSize"

\* C9 witness: a stored member_size one above the real one was rejected
C9_Witness ==
    /\ feed.kind = "trailer" /\ DecDone
    /\ feed.deltas = <<0, 0, MaxDelta>>
    /\ Len(src.b) = MaxLen
    /\ dec.res = "InvalidMemberSize"

\* C10: after a successful encode the member_size stored in the trailer is
\* the number of bytes written to the sink, 6 + the payload bytes written
\* by the compression loop + 20, however the compressor split its output.
C10_MemberSize ==
    /\ enc.pc = "trailer" => Len(enc.sink) = HEADER_LEN + enc.compressed_size
    /\ enc.res = "Ok" =>
         /\ StoredMemberSize(enc.sink) = Len(enc.sink)
         /\ Len(enc.sink) = HEADER_LEN + enc.compressed_size + TRAILER_LEN

\* C10 witness: a member of a two-run input was written
C10_Witness ==
    /\ enc.res = "Ok"
    /\ Len(src.b) = MaxLen /\ src.b[1] # src.b[2]
    /\ StoredMemberSize(enc.sink) = Len(enc.sink)
    /\ enc.compressed_size = 2 * MaxLen + 1

\* the dictionary size the documentation gives for a level, in bytes
LevelDictSize(level) ==
    CASE level = "Fastest" -> 256 * 1024
      [] level = "Fast"    -> 4 * 1024 * 1024
      [] level = "Default" -> 8 * 1024 * 1024
      [] level = "Maximum" -> 64 * 1024 * 1024

\* C11: Header of a produced member.  Every member encode produces begins
\* with the bytes 4C 5A 49 50 01, and its 6th byte decodes through
\* decode_dict_size to the dictionary size of the level: Fastest 256 KiB,
\* Fast 4 MiB, Default 8 MiB, Maximum 64 MiB.
C11_Header ==
    enc.res = "Ok" =>
        /\ Take(enc.sink, 5) = <<76, 90, 73, 80, 1>>
        /\ decode_dict_size(enc.sink[6]) = U32(LevelDictSize(src.level))

\* C11 witness: a member produced at the Default level, its 6th byte
\* decoding to 8 MiB
C11_Witness ==
    /\ enc.res = "Ok" /\ src.level = "Default" /\ src.b # <<>>
    /\ Take(enc.sink, 5) = <<76, 90, 73, 80, 1>>
    /\ decode_dict_size(enc.sink[6]) = U32(8388608)

EncFinished(e) ==
    /\ e.stream.cons = src.b
    /\ EncAvail(e.stream, <<>>, 0, TRUE) = 0

\* C13: Finish is driven to completion.  The compression loop is left, and
\* the trailer written, only when the input is at its end and the
\* compressor has reported completion with every byte of the finished
\* stream already in the sink; while the compressor still has bytes to
\* produce, encode stays in the loop and no trailer is in the sink.
C13_FinishDrained ==
    /\ enc.pc \in {"trailer", "done"} =>
           /\ enc.rest = <<>> /\ enc.buf = <<>>
           /\ EncFinished(enc)
           /\ SubSeq(enc.sink, HEADER_LEN + 1, HEADER_LEN + Len(LzFinal(src.b)))
                  = LzFinal(src.b)
    /\ (enc.pc = "compress" /\ ~ EncFinished(enc)) =>
           Len(enc.sink) = HEADER_LEN + EncTotalOut(enc.stream)

\* C13 witness: the loop was left for the trailer after a stream longer
\* than one output buffer, two runs and the end marker, was written
C13_Witness ==
    /\ enc.pc = "trailer" /\ EncFinished(enc)
    /\ Len(src.b) = MaxLen /\ src.b[1] # src.b[2]
    /\ Drop(enc.sink, HEADER_LEN) = LzFinal(src.b)
    /\ Len(LzFinal(src.b)) > OutCap

\* C14: Trailer size and CRC of the input.  After a successful encode the
\* trailer's uncompressed_size is the length of the input and its crc32 is
\* the CRC32 of the whole input in order; all along the loop the hasher
\* has hashed exactly the bytes the compressor consumed, once each, also
\* when a call consumed fewer bytes than it was offered.
C14_SizeAndCrc ==
    /\ enc.hasher = HasherUpdate(HasherNew, enc.stream.cons)
    /\ enc.buf \o enc.rest = Drop(src.b, Len(enc.stream.cons))
    /\ enc.res = "Ok" =>
           /\ StoredDataSize(enc.sink) = Len(src.b)
           /\ StoredCrc(enc.sink) = HasherFinalize(HasherUpdate(HasherNew, src.b))

\* C14 witness: a call of the compressor consumed fewer bytes than it was
\* offered, the rest is still in the buffer, and the hasher is at the CRC
\* of the consumed byte alone
C14_Witness ==
    /\ enc.pc = "compress" /\ enc.buf # <<>>
    /\ Len(enc.stream.cons) = 1
    /\ Len(src.b) = MaxLen /\ src.b[1] # src.b[2]
    /\ enc.hasher = HasherUpdate(HasherNew, <<src.b[1]>>)

\* decode returned from read_trailer after it had read the 20 bytes
TrailerRead ==
    DecDone /\ dec.res \in {"Ok", "InvalidCrc", "InvalidDataSize", "InvalidMemberSize"}

\* C15: The decoder removes from its input exactly what the decompressor
\* consumed.  During decompression the unread input is the input from
\* offset 6 + total_in on; at stream-end compressed_size is the number of
\* payload bytes and the unread input starts at offset 6 + compressed_size,
\* bytes fetched with the end of the payload but not consumed included;
\* the trailer read takes the 20 bytes from there.
C15_ConsumedExactly ==
    /\ dec.pc \in {"decompress", "trailer"} =>
           dec.buf \o dec.rest = Drop(feed.input, HEADER_LEN + dec.stream.tin)
    /\ dec.pc = "trailer" =>
           /\ dec.compressed_size = dec.stream.tin
           /\ feed.kind \in {"none", "header", "trailer", "extra"} =>
                  dec.compressed_size = Len(LzFinal(src.b))
    /\ TrailerRead =>
           dec.buf \o dec.rest
               = Drop(feed.input, HEADER_LEN + dec.compressed_size + TRAILER_LEN)

\* C15 witness: stream-end was reached by a call that was offered the last
\* payload byte together with the first trailer byte; that byte is still
\* in the buffer
C15_Witness ==
    /\ dec.pc = "trailer" /\ feed.kind = "none"
    /\ Len(dec.buf) = 1 /\ dec.buf[1] = feed.input[HEADER_LEN + dec.compressed_size + 1]
    /\ Len(dec.rest) = TRAILER_LEN - 1
    /\ dec.compressed_size = Len(LzFinal(src.b)) /\ src.b # <<>>

\* the first 6 bytes of the decoder's input pass the three header checks
HeaderPasses ==
    /\ Len(feed.input) >= HEADER_LEN
    /\ Take(feed.input, 4) = <<76, 90, 73, 80>>
    /\ feed.input[5] = 1
    /\ DictSizeInRange(decode_dict_size(feed.input[6]))

\* C16: Stages in order.  Nothing is written to the sink, and the
\* decompressor is not called, before the header has passed the magic,
\* version and dictionary-size checks; a header failure leaves the sink
\* empty and reads nothing beyond the 6 header bytes; the trailer is read
\* only after the decompressor has signalled stream-end.
C16_StagesInOrder ==
    /\ dec.pc \in {"idle", "header"} =>
           dec.sink = <<>> /\ dec.stream = DecStreamNew
    /\ (dec.pc \in {"decompress", "trailer"} \/ dec.sink # <<>>
        \/ dec.stream # DecStreamNew) => HeaderPasses
    /\ dec.res \in {"InvalidMagic", "UnsupportedVersion", "InvalidDictSize"} =>
           /\ dec.sink = <<>> /\ dec.stream = DecStreamNew
           /\ dec.buf \o dec.rest = Drop(feed.input, HEADER_LEN)
    /\ (dec.pc = "trailer" \/ TrailerRead) => dec.stream.phase = "end"

\* C16 witness: a header with a dictionary size out of range, followed by
\* a payload that would decompress to one byte, failed with an empty sink
C16_Witness ==
    /\ DecDone /\ dec.res = "InvalidDictSize" /\ dec.sink = <<>>
    /\ Take(feed.input, 5) = <<76, 90, 73, 80, 1>>
    /\ Len(feed.input) > HEADER_LEN + TRAILER_LEN

\* C17: Output is not rolled back.  When decode fails with InvalidCrc,
\* InvalidDataSize or InvalidMemberSize, the sink holds every byte the
\* decompressor produced from the payload (the encoder's input when the
\* payload is intact); they were all in the sink already when the trailer
\* was about to be read.
C17_NoRollback ==
    /\ (DecDone /\ dec.res \in {"InvalidCrc", "InvalidDataSize", "InvalidMemberSize"}) =>
           /\ dec.stream.phase = "end" /\ Len(dec.sink) = dec.stream.tout
           /\ dec.crc32 = HasherFinalize(HasherUpdate(HasherNew, dec.sink))
           /\ feed.kind \in {"none", "header", "trailer", "extra"} => dec.sink = src.b
    /\ dec.pc = "trailer" =>
           /\ dec.stream.phase = "end" /\ Len(dec.sink) = dec.stream.tout
           /\ feed.kind \in {"none", "header", "trailer", "extra"} => dec.sink = src.b

\* C17 witness: decode failed with InvalidCrc and the sink holds the whole
\* two-run input
C17_Witness ==
    /\ DecDone /\ dec.res = "InvalidCrc" /\ feed.kind = "trailer"
    /\ Len(src.b) = MaxLen /\ src.b[1] # src.b[2]
    /\ dec.sink = src.b

\* C18: Order of the trailer checks.  With the payload intact, a trailer
\* whose crc32 is wrong yields InvalidCrc whatever the two size fields
\* hold, and a trailer whose crc32 is right and whose uncompressed_size is
\* wrong yields InvalidDataSize whatever member_size holds.
C18_FirstMismatch ==
    (DecDone /\ feed.kind = "trailer") =>
        LET crcOk  == StoredCrc(feed.input) = HasherFinalize(HasherUpdate(HasherNew, src.b))
            sizeOk == StoredDataSize(feed.input) = Len(src.b)
        IN  /\ ~ crcOk => dec.res = "InvalidCrc"
            /\ (crcOk /\ ~ sizeOk) => dec.res = "InvalidDataSize"

\* C18 witness: all three fields of the trailer are wrong and decode
\* reported InvalidCrc
C18_Witness ==
    /\ DecDone /\ feed.kind = "trailer" /\ dec.res = "InvalidCrc"
    /\ StoredCrc(feed.input) # HasherFinalize(HasherUpdate(HasherNew, src.b))
    /\ StoredDataSize(feed.input) # Len(src.b)
    /\ StoredMemberSize(feed.input) # Len(feed.input)

\* C19: decode terminates.  Every call of decode on a finite input runs to
\* completion: read_header is one read that returns an error or enters the
\* loop, the loop of decompress always comes to an end (stream-end or an
\* error), whatever amounts the decompressor consumes and produces in each
\* call and however the reads are split, and read_trailer is one read after
\* which decode returns.
C19_DecodeReturns ==
    /\ [](dec.pc = "header" =>
            \A k \in 1 .. BufCap : read_header(dec, k).pc \in {"decompress", "done"})
    /\ (dec.pc = "decompress") ~> (dec.pc \in {"trailer", "done"})
    /\ [](dec.pc = "trailer" =>
            \A k \in 1 .. BufCap : read_trailer(dec, k).pc = "done")

\* C19 witness: decode returned on an input that ends inside a run: the
\* loop wrote the pending bytes of the run over several calls, then met
\* end of input with nothing to write
C19_Witness ==
    /\ DecDone /\ dec.res = "UnexpectedEndOfStream"
    /\ Len(dec.sink) = 2 /\ dec.stream.tin = MaxBody
    /\ dec.buf = <<>> /\ dec.rest = <<>>

\* C20: The first failure aborts the call.  Once encode has returned, with
\* Ok or with the error of the step that failed, nothing more is written
\* to its sink and nothing more is read from its input; the same holds for
\* decode.  A failed header or payload step of encode is therefore never
\* followed by the trailer.
C20_FirstFailureAborts ==
    [][ /\ enc.res # "none" => enc' = enc
        /\ dec.res # "none" => dec' = dec
        /\ (enc'.res \notin {"none", "Ok"} /\ enc.pc # "trailer") =>
               Len(enc'.sink) <= HEADER_LEN + EncTotalOut(enc'.stream) ]_vars

\* C20 witness: a write of compressed bytes failed after the header and a
\* part of the payload were written; encode returned IoError and the sink
\* ends inside the payload
C20_Witness ==
    /\ enc.pc = "done" /\ enc.res = "IoError"
    /\ enc.stream.nout >= 2
    /\ Len(enc.sink) = HEADER_LEN + enc.stream.nout - 1

\* ceil(log2(d)) for d >= 1: the least e with 2^e >= d
CeilLog2(d) == CHOOSE e \in 0 .. 31 : Pow2(e) >= d /\ (e = 0 \/ Pow2(e - 1) < d)

\* C21: What encode_dict_size stores.  For every dictionary size d in
\* [4 KiB, 512 MiB], the exponent (bits 0-4) of encode_dict_size(d) is
\* ceil(log2(d)), and the size the byte decodes to is not smaller than d,
\* not above 512 MiB, and not larger than the decoded size of any other
\* byte that decodes to at least d.
C21_SmallestRepresentable ==
    cod.pc = "decoded" =>
        /\ cod.byte \in 0 .. 255
        /\ cod.byte % 32 = CeilLog2(cod.d)
        /\ ~ U32Lt(cod.out, U32(cod.d))
        /\ ~ U32Gt(cod.out, U32(512 * 1024 * 1024))
        /\ \A b \in 0 .. 255 :
               ~ U32Lt(decode_dict_size(b), U32(cod.d))
                   => ~ U32Lt(decode_dict_size(b), cod.out)

\* C21 witness: a size no byte can express was encoded with the subtractor
\* 3 and decodes to a larger size
C21_Witness ==
    /\ cod.pc = "decoded" /\ ~ Decodable(cod.d)
    /\ cod.byte \div 32 = 3
    /\ cod.byte % 32 = CeilLog2(cod.d)
    /\ U32Gt(cod.out, U32(cod.d))

\* C22: decode_dict_size is many-to-one only at 4 KiB.  Among the bytes
\* that decode to a size in [4 KiB, 512 MiB], two different bytes decode
\* to the same size only when both have exponent 12 and the size is 4 KiB;
\* all 8 bytes with exponent 12 do decode to 4 KiB; and every byte whose
\* size is in the range and is not 4 KiB is what encode_dict_size returns
\* for its decoded size.
C22_ManyToOneAtMin ==
    /\ (cod.pc = "sized" /\ DictSizeInRange(cod.out)) =>
           \A b \in (0 .. 255) \ {cod.byte} :
               decode_dict_size(b) = cod.out
                   => /\ cod.out = U32(4 * 1024)
                      /\ cod.byte % 32 = 12 /\ b % 32 = 12
    /\ (cod.pc = "sized" /\ cod.byte % 32 = 12) => cod.out = U32(4 * 1024)
    /\ (cod.pc = "back" /\ cod.out # U32(4 * 1024)) => cod.back = cod.byte

\* C22 witness: the byte with exponent 12 and subtractor 5 decoded to
\* 4 KiB, and 4 KiB encodes to another byte, the plain exponent 12
C22_Witness ==
    /\ cod.pc = "back" /\ cod.byte = 12 + 32 * 5
    /\ cod.out = U32(4096)
    /\ cod.back = 12 /\ cod.back # cod.byte

\* C23: One member, what follows it is ignored.  For a valid member
\* followed by extra bytes (a stray byte, the start of a magic, or a whole
\* second member), decode returns Ok with the same output and the same
\* crc32 and sizes as for the member alone, and consumes nothing after the
\* trailer: what is left of the input, in the buffer or unread, is exactly
\* the extra bytes.
C23_ExtraIgnored ==
    /\ feed.kind = "extra" =>
           /\ feed.input = enc.sink \o feed.extra
           /\ Len(dec.buf) + Len(dec.rest) >= Len(feed.extra)
    /\ (feed.kind = "extra" /\ DecDone) =>
           /\ dec.res = "Ok"
           /\ dec.sink = src.b
           /\ dec.crc32 = StoredCrc(enc.sink)
           /\ dec.uncompressed_size = Len(src.b)
           /\ dec.compressed_size = Len(enc.sink) - HEADER_LEN - TRAILER_LEN
           /\ dec.buf \o dec.rest = feed.extra

\* C23 witness: a member followed by a copy of itself was decoded; the
\* first byte of the copy was fetched with the end of the trailer and is
\* still in the buffer, the output is that of one member
C23_Witness ==
    /\ feed.kind = "extra" /\ DecDone /\ dec.res = "Ok"
    /\ feed.extra = enc.sink /\ src.b # <<>>
    /\ dec.sink = src.b
    /\ dec.buf = <<76>> /\ dec.buf \o dec.rest = enc.sink

====
